---- MODULE Spec2Model ----
(***************************************************************************)
(* The split-settlement ledger of montage-core: the Expenditure model with *)
(* its pre-save split validator and the expenditure route handlers         *)
(* (create, list, update, delete, mark-paid, settlements) acting on the    *)
(* Expenditure store.                                                      *)
(*                                                                         *)
(* Amounts are integer hundredths.  A request body is a function from the  *)
(* keys it carries to their values, so an absent key is a key outside      *)
(* DOMAIN body.  A split's settledAt is 0 when unset and a clock reading   *)
(* (>= 1) when set.  A findOne result is a set holding the document found, *)
(* or the empty set for null.                                              *)
(*                                                                         *)
(* Five specifications share the handlers.  Under Spec the requests run    *)
(* one at a time, each handler as one step, on one expenditure; SpecFair   *)
(* is Spec's create, mark-paid and delete with every participant's         *)
(* mark-paid weakly fair.  Under                                           *)
(* SpecConc a handler that reads and then saves (mark-paid, update) is cut *)
(* at its await on findOne, and the handlers of different users            *)
(* interleave.  Under SpecLedger the collection holds several expenditures *)
(* and the handlers that list and aggregate it run among the others.       *)
(* Under SpecShared several users pay, and the handlers that read one      *)
(* expenditure, balances and statistics run behind the auth middleware.    *)
(***************************************************************************)
EXTENDS Integers, Sequences, FiniteSets, TLC

\* Bounds of the model.
MaxSplits == 2
MaxClock == 2
MaxDocs == 2

\* Math.abs(totalSplitAmount - this.totalAmount) > 0.01, in hundredths.
Tolerance == 1

Users == {"u1", "u2", "u3"}

\* The users who create expenditures.  A handler only compares identities
\* for equality, so which user creates is immaterial; every user takes part
\* as split participant and as the caller of the other requests.
Creators == {"u1"}

Categories ==
  {"food", "transportation", "housing", "utilities", "healthcare",
   "entertainment", "shopping", "education", "personal_care",
   "debt_payments", "savings", "gifts", "other"}

allowedUpdates ==
  {"amount", "category", "description", "date", "paymentMethod", "tags", "location"}

VARIABLES
  store,   \* the Expenditure collection: _id -> document
  nextId,  \* the _id the next created document gets
  now,     \* the clock read by new Date()
  resp,    \* Spec: the response to the last request
  reqs     \* SpecConc: each user's request in flight, or its response

vars == <<store, nextId, now, resp, reqs>>

Empty == [k \in {} |-> TRUE]
Has(r, k) == k \in DOMAIN r
Abs(x) == IF x < 0 THEN 0 - x ELSE x

Opt(r, k) == IF Has(r, k) THEN (k :> r[k]) ELSE Empty

RECURSIVE SumAmounts(_)
SumAmounts(splits) ==
  IF splits = << >> THEN 0
  ELSE Head(splits).amount + SumAmounts(Tail(splits))

----------------------------------------------------------------------------
(* The Expenditure model.                                                  *)

\* splitSchema: paid defaults to false, settledAt is optional.
SplitDoc(s) ==
  Opt(s, "user") @@ Opt(s, "amount")
    @@ [paid |-> IF Has(s, "paid") THEN s.paid ELSE FALSE,
        settledAt |-> IF Has(s, "settledAt") THEN s.settledAt ELSE 0]

\* expenditureSchema defaults: splits [], isSettled false.
SchemaDefaults(d) ==
  d @@ [splits |-> << >>, isSettled |-> FALSE]

\* The schema's validators: required fields, min 0, the category enum.
ValidationErrors(doc) ==
  {f \in {"user", "amount", "category", "totalAmount", "paidBy"} : ~Has(doc, f)}
    \cup (IF Has(doc, "amount") /\ doc.amount < 0 THEN {"amount"} ELSE {})
    \cup (IF Has(doc, "totalAmount") /\ doc.totalAmount < 0 THEN {"totalAmount"} ELSE {})
    \cup (IF Has(doc, "category") /\ doc.category \notin Categories THEN {"category"} ELSE {})
    \cup (IF \E i \in DOMAIN doc.splits :
               \/ ~Has(doc.splits[i], "user")
               \/ ~Has(doc.splits[i], "amount")
               \/ doc.splits[i].amount < 0
          THEN {"splits"} ELSE {})

\* Mutant: the hook compares the splits with amount, not totalAmount.
PreSaveRefusesAgainstAmount(doc) ==
  /\ Len(doc.splits) > 0
  /\ Abs(SumAmounts(doc.splits) - doc.amount) > Tolerance

\* Mutant: the hook refuses a difference of exactly the tolerance.
PreSaveRefusesAtTolerance(doc) ==
  /\ Len(doc.splits) > 0
  /\ Abs(SumAmounts(doc.splits) - doc.totalAmount) >= Tolerance

\* Mutant: the hook compares without Math.abs.
PreSaveRefusesSigned(doc) ==
  /\ Len(doc.splits) > 0
  /\ SumAmounts(doc.splits) - doc.totalAmount > Tolerance

\* The pre('save') hook refuses the save: splits do not add up to the total.
PreSaveRefuses(doc) ==
  /\ Len(doc.splits) > 0
  /\ Abs(SumAmounts(doc.splits) - doc.totalAmount) > Tolerance

PreSaveMessage == "Split amounts must add up to the total amount"

\* What a failed save throws, or "" when the document may be written:
\* the built-in validation runs before the schema's own pre('save') hook.
SaveError(doc) ==
  IF ValidationErrors(doc) # {} THEN "ValidationError"
  ELSE IF PreSaveRefuses(doc) THEN "Error"
  ELSE ""

----------------------------------------------------------------------------
(* save() of a loaded document writes the paths modified since it was     *)
(* loaded, not the whole document.  A delta is [top, sub]: top maps the   *)
(* modified top-level paths to their values, sub maps the index of a      *)
(* modified split to its modified fields.                                  *)

ApplyDelta(cur, delta) ==
  LET top == [k \in DOMAIN cur |->
                IF Has(delta.top, k) THEN delta.top[k] ELSE cur[k]]
  IN [top EXCEPT !.splits =
        [i \in DOMAIN top.splits |->
           IF i \in DOMAIN delta.sub THEN delta.sub[i] @@ top.splits[i]
           ELSE top.splits[i]]]

\* Mutant: save() writes the whole loaded document back.
SaveWholeDocument(st, id, doc, delta) ==
  IF SaveError(doc) # "" THEN [error |-> SaveError(doc), store |-> st]
  ELSE IF id \notin DOMAIN st THEN [error |-> "DocumentNotFoundError", store |-> st]
  ELSE [error |-> "", store |-> [st EXCEPT ![id] = doc]]

\* await expenditure.save() on a loaded document: [error, store].
Save(st, id, doc, delta) ==
  IF SaveError(doc) # "" THEN [error |-> SaveError(doc), store |-> st]
  ELSE IF id \notin DOMAIN st THEN [error |-> "DocumentNotFoundError", store |-> st]
  ELSE [error |-> "", store |-> [st EXCEPT ![id] = ApplyDelta(st[id], delta)]]

\* The app's error handler.  err is [status, message, stack], status 0 and
\* message "" when the error carries none.  The body is {error: {message,
\* details}}: errorDetails is err.stack in development and {} otherwise, and
\* {} is truthy, so the spread adds the details key in every mode.
ErrorResponse(env, err) ==
  LET statusCode == IF err.status # 0 THEN err.status ELSE 500
      message == IF err.message # "" THEN err.message ELSE "Internal Server Error"
      errorDetails == IF env = "development" THEN err.stack ELSE Empty
  IN [status |-> statusCode, error |-> message, details |-> errorDetails]

\* next(error) with an Error that has no status, the app in production mode.
ErrorHandler(op, message) ==
  [op |-> op]
    @@ ErrorResponse("production",
                     [status |-> 0, message |-> message, stack |-> "stack"])

ValidationFailed(op) == [op |-> op, status |-> 400, error |-> "Validation failed"]

----------------------------------------------------------------------------
(* createExpenditure                                                       *)

\* Mutant: the body's fields are spread after user and paidBy are set.
CandidateBodyLast(c, body) ==
  LET expenditureData == [k \in DOMAIN body \ {"splits", "totalAmount"} |-> body[k]]
      totalAmount ==
        IF Has(body, "totalAmount") /\ body.totalAmount # 0
        THEN [totalAmount |-> body.totalAmount]
        ELSE IF Has(expenditureData, "amount")
             THEN [totalAmount |-> expenditureData.amount]
             ELSE Empty
      splits == IF Has(body, "splits") THEN body.splits ELSE << >>
  IN SchemaDefaults(
       expenditureData
         @@ [user |-> c, paidBy |-> c,
             splits |-> [i \in DOMAIN splits |-> SplitDoc(splits[i])]]
         @@ totalAmount)

\* The document Expenditure.create is given.
Candidate(c, body) ==
  LET expenditureData == [k \in DOMAIN body \ {"splits", "totalAmount"} |-> body[k]]
      totalAmount ==
        IF Has(body, "totalAmount") /\ body.totalAmount # 0
        THEN [totalAmount |-> body.totalAmount]
        ELSE IF Has(expenditureData, "amount")
             THEN [totalAmount |-> expenditureData.amount]
             ELSE Empty
      splits == IF Has(body, "splits") THEN body.splits ELSE << >>
  IN SchemaDefaults(
       [user |-> c, paidBy |-> c,
        splits |-> [i \in DOMAIN splits |-> SplitDoc(splits[i])]]
         @@ totalAmount @@ expenditureData)

\* Mutant: the document is inserted before the pre('save') hook runs.
CreateResultInsertsBeforeHook(st, id, c, body) ==
  LET doc == Candidate(c, body)
      err == SaveError(doc)
  IN IF err = "ValidationError"
     THEN [store |-> st, resp |-> ValidationFailed("create")]
     ELSE IF err # ""
     THEN [store |-> (id :> doc) @@ st,
           resp |-> ErrorHandler("create", PreSaveMessage)]
     ELSE [store |-> (id :> doc) @@ st,
           resp |-> [op |-> "create", status |-> 201, error |-> ""]]

\* [store, resp] of POST /expenditures by c.
CreateResult(st, id, c, body) ==
  LET doc == Candidate(c, body)
      err == SaveError(doc)
  IN IF err = "ValidationError"
     THEN [store |-> st, resp |-> ValidationFailed("create")]
     ELSE IF err # ""
     THEN [store |-> st, resp |-> ErrorHandler("create", PreSaveMessage)]
     ELSE [store |-> (id :> doc) @@ st,
           resp |-> [op |-> "create", status |-> 201, error |-> ""]]

----------------------------------------------------------------------------
(* markSplitAsPaid                                                         *)

\* Mutant: the query does not ask for isSettled: false.
FindOneMarkPaidAnySettled(st, c, id) ==
  IF /\ id \in DOMAIN st
     /\ \E i \in DOMAIN st[id].splits : st[id].splits[i].user = c
  THEN {st[id]} ELSE {}

\* Mutant: the query does not ask for 'splits.user': c.
FindOneMarkPaidAnyUser(st, c, id) ==
  IF id \in DOMAIN st /\ st[id].isSettled = FALSE THEN {st[id]} ELSE {}

\* Expenditure.findOne({_id, 'splits.user': c, isSettled: false})
FindOneMarkPaid(st, c, id) ==
  IF /\ id \in DOMAIN st
     /\ \E i \in DOMAIN st[id].splits : st[id].splits[i].user = c
     /\ st[id].isSettled = FALSE
  THEN {st[id]} ELSE {}

\* Mutant: find takes the first unpaid split, whoever its participant is.
FindSplitFirstUnpaid(splits, c) ==
  IF \E i \in DOMAIN splits : ~splits[i].paid
  THEN CHOOSE i \in DOMAIN splits :
         /\ ~splits[i].paid
         /\ \A j \in 1..(i - 1) : splits[j].paid
  ELSE 0

\* expenditure.splits.find(s => s.user === c): the first index, 0 for none.
FindSplit(splits, c) ==
  IF \E i \in DOMAIN splits : splits[i].user = c
  THEN CHOOSE i \in DOMAIN splits :
         /\ splits[i].user = c
         /\ \A j \in 1..(i - 1) : splits[j].user # c
  ELSE 0

AllPaid(splits) == \A i \in DOMAIN splits : splits[i].paid

\* The handler from the result of findOne on: [store, resp].
MarkPaidResult(st, t, c, id, found) ==
  IF found = {}
  THEN [store |-> st,
        resp |-> [op |-> "markPaid", status |-> 404,
                  error |-> "Expenditure not found or already settled"]]
  ELSE
    LET expenditure == CHOOSE d \in found : TRUE
        i == FindSplit(expenditure.splits, c)
    IN IF i = 0
       THEN [store |-> st,
             resp |-> [op |-> "markPaid", status |-> 404,
                       error |-> "Split not found for this user"]]
       ELSE
         LET split == expenditure.splits[i]
             marked == [expenditure EXCEPT !.splits[i].paid = TRUE,
                                           !.splits[i].settledAt = t]
             allPaid == AllPaid(marked.splits)
             doc == IF allPaid THEN [marked EXCEPT !.isSettled = TRUE] ELSE marked
             delta ==
               [top |-> IF doc.isSettled # expenditure.isSettled
                        THEN [isSettled |-> doc.isSettled] ELSE Empty,
                sub |-> i :> [f \in {f \in {"paid", "settledAt"} :
                                       doc.splits[i][f] # split[f]}
                                |-> doc.splits[i][f]]]
             saved == Save(st, id, doc, delta)
         IN IF saved.error # ""
            THEN [store |-> st, resp |-> ErrorHandler("markPaid", saved.error)]
            ELSE [store |-> saved.store,
                  resp |-> [op |-> "markPaid", status |-> 200, error |-> ""]]

----------------------------------------------------------------------------
(* updateExpenditure, deleteExpenditure                                    *)

\* Mutant: the whitelist lets splits through.
isValidOperationWithSplits(body) == DOMAIN body \subseteq allowedUpdates \cup {"splits"}

\* Mutant: updates.some(...) in place of updates.every(...).
isValidOperationSome(body) == DOMAIN body \cap allowedUpdates # {}

isValidOperation(body) == DOMAIN body \subseteq allowedUpdates

InvalidUpdates == [op |-> "update", status |-> 400, error |-> "Invalid updates"]

NotFound(op) == [op |-> op, status |-> 404, error |-> "Expenditure not found"]

\* Mutant: the query does not ask for user: c.
FindOneById(st, c, id) ==
  IF id \in DOMAIN st THEN {st[id]} ELSE {}

\* Expenditure.findOne({_id, user: c})
FindOneOwned(st, c, id) ==
  IF id \in DOMAIN st /\ st[id].user = c THEN {st[id]} ELSE {}

\* The handler from the result of findOne on: [store, resp].
UpdateResult(st, c, id, body, found) ==
  IF found = {} THEN [store |-> st, resp |-> NotFound("update")]
  ELSE
    LET expenditure == CHOOSE d \in found : TRUE
        doc == body @@ expenditure
        delta == [top |-> [k \in {k \in DOMAIN body :
                                    ~Has(expenditure, k) \/ body[k] # expenditure[k]}
                             |-> body[k]],
                  sub |-> Empty]
        saved == Save(st, id, doc, delta)
    IN IF saved.error = "ValidationError"
       THEN [store |-> st, resp |-> ValidationFailed("update")]
       ELSE IF saved.error # ""
       THEN [store |-> st,
             resp |-> ErrorHandler("update",
                        IF saved.error = "Error" THEN PreSaveMessage ELSE saved.error)]
       ELSE [store |-> saved.store,
             resp |-> [op |-> "update", status |-> 200, error |-> ""]]

\* PATCH /expenditures/:id by c, the whitelist check first: [store, resp].
PatchResult(st, c, id, body) ==
  IF ~isValidOperation(body)
  THEN [store |-> st, resp |-> InvalidUpdates]
  ELSE UpdateResult(st, c, id, body, FindOneOwned(st, c, id))

\* Mutant: the delete does not ask for user: c.
DeleteResultByAnyone(st, c, id) ==
  IF FindOneById(st, c, id) = {} THEN [store |-> st, resp |-> NotFound("delete")]
  ELSE [store |-> [k \in DOMAIN st \ {id} |-> st[k]],
        resp |-> [op |-> "delete", status |-> 200, error |-> ""]]

\* Expenditure.findOneAndDelete({_id, user: c}): [store, resp].
DeleteResult(st, c, id) ==
  IF FindOneOwned(st, c, id) = {} THEN [store |-> st, resp |-> NotFound("delete")]
  ELSE [store |-> [k \in DOMAIN st \ {id} |-> st[k]],
        resp |-> [op |-> "delete", status |-> 200, error |-> ""]]

\* GET /expenditures/:id by c: the response, the document found as its body.
GetResult(st, c, id) ==
  IF FindOneOwned(st, c, id) = {} THEN NotFound("get")
  ELSE [op |-> "get", status |-> 200, error |-> "",
        body |-> CHOOSE d \in FindOneOwned(st, c, id) : TRUE]

----------------------------------------------------------------------------
(* getExpenditures.  A query is a function from the parameters the request *)
(* carries to their values: numbers and dates as parsed, the rest as the   *)
(* strings sent.  The response lists documents by their _id.               *)

\* if (x) on a parsed number: 0 is falsy, as an absent parameter is.
Truthy(q, k) == Has(q, k) /\ q[k] # 0

\* if (x) on a string parameter: the empty string is falsy.
NonEmpty(q, k) == Has(q, k) /\ q[k] # ""

\* parseInt(req.query.page) || 1 and parseInt(req.query.limit) || 10
page(q) == IF Truthy(q, "page") THEN q.page ELSE 1
limit(q) == IF Truthy(q, "limit") THEN q.limit ELSE 10

IsParticipant(doc, c) == \E i \in DOMAIN doc.splits : doc.splits[i].user = c

\* Mutant: the amount range is applied to amount, not to totalAmount.
QueryMatchesOnAmount(doc, c, q) ==
  /\ doc.user = c \/ IsParticipant(doc, c)
  /\ Has(q, "startDate") => doc.date >= q.startDate
  /\ Has(q, "endDate") => doc.date <= q.endDate
  /\ NonEmpty(q, "category") => doc.category = q.category
  /\ NonEmpty(q, "tag") => q.tag \in doc.tags
  /\ Truthy(q, "minAmount") \/ Truthy(q, "maxAmount") =>
       /\ Truthy(q, "minAmount") => doc.amount >= q.minAmount
       /\ Truthy(q, "maxAmount") => doc.amount <= q.maxAmount
  /\ Has(q, "splitType") /\ q.splitType = "paid" => doc.paidBy = c
  /\ Has(q, "splitType") /\ q.splitType = "owed" =>
       IsParticipant(doc, c) /\ doc.paidBy # c
  /\ Has(q, "isSettled") => doc.isSettled = (q.isSettled = "true")

\* Mutant: a category filter takes the place of the $or on the caller.
QueryMatchesCategoryOfAnyone(doc, c, q) ==
  /\ NonEmpty(q, "category") \/ doc.user = c \/ IsParticipant(doc, c)
  /\ Has(q, "startDate") => doc.date >= q.startDate
  /\ Has(q, "endDate") => doc.date <= q.endDate
  /\ NonEmpty(q, "category") => doc.category = q.category
  /\ NonEmpty(q, "tag") => q.tag \in doc.tags
  /\ Truthy(q, "minAmount") \/ Truthy(q, "maxAmount") =>
       /\ Truthy(q, "minAmount") => doc.totalAmount >= q.minAmount
       /\ Truthy(q, "maxAmount") => doc.totalAmount <= q.maxAmount
  /\ Has(q, "splitType") /\ q.splitType = "paid" => doc.paidBy = c
  /\ Has(q, "splitType") /\ q.splitType = "owed" =>
       IsParticipant(doc, c) /\ doc.paidBy # c
  /\ Has(q, "isSettled") => doc.isSettled = (q.isSettled = "true")

\* The document satisfies the query object the handler builds.
QueryMatches(doc, c, q) ==
  /\ doc.user = c \/ IsParticipant(doc, c)
  /\ Has(q, "startDate") => doc.date >= q.startDate
  /\ Has(q, "endDate") => doc.date <= q.endDate
  /\ NonEmpty(q, "category") => doc.category = q.category
  /\ NonEmpty(q, "tag") => q.tag \in doc.tags
  /\ Truthy(q, "minAmount") \/ Truthy(q, "maxAmount") =>
       /\ Truthy(q, "minAmount") => doc.totalAmount >= q.minAmount
       /\ Truthy(q, "maxAmount") => doc.totalAmount <= q.maxAmount
  /\ Has(q, "splitType") /\ q.splitType = "paid" => doc.paidBy = c
  /\ Has(q, "splitType") /\ q.splitType = "owed" =>
       IsParticipant(doc, c) /\ doc.paidBy # c
  /\ Has(q, "isSettled") => doc.isSettled = (q.isSettled = "true")

\* Expenditure.find(query) before sort, skip and limit.
Find(st, c, q) == {id \in DOMAIN st : QueryMatches(st[id], c, q)}

\* Expenditure.countDocuments(query)
countDocuments(st, c, q) == Cardinality(Find(st, c, q))

\* .sort({date: -1}): every order of the matches by descending date; the
\* order of two documents of one date is not determined.
SortByDateDesc(st, ids) ==
  {s \in [1..Cardinality(ids) -> ids] :
     /\ \A i, j \in DOMAIN s : i < j => s[i] # s[j] /\ st[s[i]].date >= st[s[j]].date}

\* Mutant: skip(page * limit).
SkipLimitFromPage(s, skip, lim) ==
  [i \in 1..(IF Len(s) - (skip + lim) < 0 THEN 0
             ELSE IF Len(s) - (skip + lim) < lim THEN Len(s) - (skip + lim)
             ELSE lim)
     |-> s[skip + lim + i]]

\* .skip(skip).limit(lim) of a sorted result.
SkipLimit(s, skip, lim) ==
  [i \in 1..(IF Len(s) - skip < 0 THEN 0
             ELSE IF Len(s) - skip < lim THEN Len(s) - skip
             ELSE lim)
     |-> s[skip + i]]

\* Math.ceil(total / lim)
Ceil(total, lim) ==
  IF total % lim = 0 THEN total \div lim ELSE total \div lim + 1

\* {$sum: '$totalAmount'} over the documents ids.
RECURSIVE SumTotalAmount(_, _)
SumTotalAmount(st, ids) ==
  IF ids = {} THEN 0
  ELSE LET id == CHOOSE i \in ids : TRUE
       IN st[id].totalAmount + SumTotalAmount(st, ids \ {id})

\* summary: the $group over the matches of the query, or its default.
\* avgAmount is the pair <<sum, count>> of the quotient $avg computes.
ListSummary(st, ids) ==
  LET totals == {st[id].totalAmount : id \in ids}
  IN IF ids = {}
     THEN [totalAmount |-> 0, avgAmount |-> <<0, 1>>, maxAmount |-> 0,
           minAmount |-> 0, count |-> 0]
     ELSE [totalAmount |-> SumTotalAmount(st, ids),
           avgAmount |-> <<SumTotalAmount(st, ids), Cardinality(ids)>>,
           maxAmount |-> CHOOSE a \in totals : \A b \in totals : b <= a,
           minAmount |-> CHOOSE a \in totals : \A b \in totals : a <= b,
           count |-> Cardinality(ids)]

\* splitSummary: over the unsettled expenditures c paid or takes part in,
\* what c paid and the caller's first split of what others paid.
SplitSummary(st, c) ==
  LET matched == {id \in DOMAIN st :
                    /\ st[id].isSettled = FALSE
                    /\ st[id].paidBy = c \/ IsParticipant(st[id], c)}
      paid == {id \in matched : st[id].paidBy = c}
      owed == matched \ paid
      RECURSIVE SumOwn(_)
      SumOwn(ids) ==
        IF ids = {} THEN 0
        ELSE LET id == CHOOSE i \in ids : TRUE
             IN st[id].splits[FindSplit(st[id].splits, c)].amount
                  + SumOwn(ids \ {id})
  IN IF matched = {}
     THEN [totalPaid |-> 0, totalOwed |-> 0, balance |-> 0]
     ELSE [totalPaid |-> SumTotalAmount(st, paid), totalOwed |-> SumOwn(owed)]

\* The pages GET /expenditures may give c: [expenditures, pagination].
ListResponses(st, c, q) ==
  LET total == countDocuments(st, c, q)
  IN {[expenditures |-> SkipLimit(s, (page(q) - 1) * limit(q), limit(q)),
       pagination |-> [total |-> total,
                       page |-> page(q),
                       pages |-> Ceil(total, limit(q)),
                       hasMore |-> page(q) * limit(q) < total]] :
        s \in SortByDateDesc(st, Find(st, c, q))}

\* The bodies GET /expenditures may give c: a page with the summaries.
ListBodies(st, c, q) ==
  LET summaries == [summary |-> ListSummary(st, Find(st, c, q)),
                    splitSummary |-> SplitSummary(st, c)]
  IN {r @@ summaries : r \in ListResponses(st, c, q)}

----------------------------------------------------------------------------
(* getSettlementSummary                                                    *)

\* Mutant: the $match does not ask for isSettled: false.
SettlementMatchAnySettled(doc, c) ==
  doc.paidBy = c \/ IsParticipant(doc, c)

\* $match {isSettled: false, $or: [{paidBy: c}, {'splits.user': c}]}
SettlementMatch(doc, c) ==
  /\ doc.isSettled = FALSE
  /\ doc.paidBy = c \/ IsParticipant(doc, c)

\* $group _id.userId: the first split's participant for the payer ("" when
\* the split list is empty and $arrayElemAt gives nothing), else the payer.
userId(doc, c) ==
  IF doc.paidBy = c
  THEN IF doc.splits = << >> THEN "" ELSE doc.splits[1].user
  ELSE doc.paidBy

\* Mutant: the caller's own split is not negated.
OwedUnsigned(doc, c) ==
  IF doc.paidBy = c
  THEN IF doc.splits = << >> THEN 0 ELSE doc.splits[1].amount
  ELSE doc.splits[FindSplit(doc.splits, c)].amount

\* Mutant: a participant's share is read off the first split of the list.
OwedFirstSplit(doc, c) ==
  IF doc.splits = << >> THEN 0
  ELSE IF doc.paidBy = c THEN doc.splits[1].amount
  ELSE (0 - 1) * doc.splits[1].amount

\* What the document adds to totalOwed: the first split's amount for the
\* payer (nothing, summed as 0, when there is no split), else minus the
\* amount of the caller's first split.
Owed(doc, c) ==
  IF doc.paidBy = c
  THEN IF doc.splits = << >> THEN 0 ELSE doc.splits[1].amount
  ELSE (0 - 1) * doc.splits[FindSplit(doc.splits, c)].amount

RECURSIVE SumOwed(_, _, _)
SumOwed(st, c, ids) ==
  IF ids = {} THEN 0
  ELSE LET id == CHOOSE i \in ids : TRUE
       IN Owed(st[id], c) + SumOwed(st, c, ids \ {id})

\* The rows of the $group, after $match {totalOwed: {$ne: 0}}.
Settlements(st, c) ==
  LET matched == {id \in DOMAIN st : SettlementMatch(st[id], c)}
      group(u) == {id \in matched : userId(st[id], c) = u}
      rows == {[userId |-> u,
                totalOwed |-> SumOwed(st, c, group(u)),
                transactions |-> {[_id |-> id, amount |-> Owed(st[id], c)] :
                                    id \in group(u)}] :
                 u \in {userId(st[id], c) : id \in matched}}
  IN {row \in rows : row.totalOwed # 0}

RECURSIVE SumRows(_)
SumRows(rows) ==
  IF rows = {} THEN 0
  ELSE LET row == CHOOSE x \in rows : TRUE
       IN Abs(row.totalOwed) + SumRows(rows \ {row})

\* Mutant: totalToPay adds the negative totals up as they are.
SettlementResponseSignedPay(st, c) ==
  LET summary == Settlements(st, c)
  IN [settlements |-> summary,
      summary |-> [totalToReceive |-> SumRows({x \in summary : x.totalOwed > 0}),
                   totalToPay |-> 0 - SumRows({x \in summary : x.totalOwed < 0})]]

\* The response of GET /expenditures/settlements for c.
SettlementResponse(st, c) ==
  LET summary == Settlements(st, c)
  IN [settlements |-> summary,
      summary |-> [totalToReceive |-> SumRows({x \in summary : x.totalOwed > 0}),
                   totalToPay |-> SumRows({x \in summary : x.totalOwed < 0})]]

----------------------------------------------------------------------------
(* getStatistics.  A date is a count of days; $year and $month read it on  *)
(* a calendar of twelve 30-day months.  avgAmount is the pair <<sum,       *)
(* count>> of the quotient $avg computes.  byCategory and byMonth are the  *)
(* sets of their rows.                                                     *)

year(date) == (date - 1) \div 360
month(date) == ((date - 1) % 360) \div 30 + 1

\* Mutant: the query matches what the caller owns or takes part in.
StatisticsMatchShared(doc, c, q) ==
  /\ doc.user = c \/ IsParticipant(doc, c)
  /\ Has(q, "startDate") => doc.date >= q.startDate
  /\ Has(q, "endDate") => doc.date <= q.endDate

\* query = {user: c}, with date.$gte and date.$lte for the bounds sent.
StatisticsMatch(doc, c, q) ==
  /\ doc.user = c
  /\ Has(q, "startDate") => doc.date >= q.startDate
  /\ Has(q, "endDate") => doc.date <= q.endDate

\* {$sum: '$amount'} over the documents ids.
RECURSIVE SumAmount(_, _)
SumAmount(st, ids) ==
  IF ids = {} THEN 0
  ELSE LET id == CHOOSE i \in ids : TRUE
       IN st[id].amount + SumAmount(st, ids \ {id})

\* The response of GET /expenditures/statistics for c.
StatisticsResponse(st, c, q) ==
  LET matched == {id \in DOMAIN st : StatisticsMatch(st[id], c, q)}
      amounts == {st[id].amount : id \in matched}
      monthOf(id) == [year |-> year(st[id].date), month |-> month(st[id].date)]
      group(ids) == [totalAmount |-> SumAmount(st, ids), count |-> Cardinality(ids)]
  IN [overall |->
        IF matched = {}
        THEN [totalAmount |-> 0, avgAmount |-> <<0, 1>>, maxAmount |-> 0,
              minAmount |-> 0, count |-> 0]
        ELSE [totalAmount |-> SumAmount(st, matched),
              avgAmount |-> <<SumAmount(st, matched), Cardinality(matched)>>,
              maxAmount |-> CHOOSE a \in amounts : \A b \in amounts : b <= a,
              minAmount |-> CHOOSE a \in amounts : \A b \in amounts : a <= b,
              count |-> Cardinality(matched)],
      byCategory |->
        {[_id |-> k] @@ group({id \in matched : st[id].category = k}) :
           k \in {st[id].category : id \in matched}},
      byMonth |->
        {[_id |-> m] @@ group({id \in matched : monthOf(id) = m}) :
           m \in {monthOf(id) : id \in matched}}]

----------------------------------------------------------------------------
(* The auth middleware.  A request is a function from the headers it       *)
(* carries to their values.  An Authorization header is << >> for the      *)
(* empty string and <<scheme, credentials>> otherwise: startsWith asks for *)
(* the scheme and replace leaves the credentials.  A token is [userId,     *)
(* exp, signed]: its payload, and whether its signature is the one that    *)
(* JWT_SECRET gives.  The User collection holds Users, and its lookups     *)
(* answer.                                                                 *)

Unauthorized(message) == [next |-> FALSE, status |-> 401, error |-> message]

\* jwt.verify(token, JWT_SECRET) at clock t: the error thrown, "" for none.
Verify(token, t) ==
  IF ~token.signed THEN "JsonWebTokenError"
  ELSE IF token.exp <= t THEN "TokenExpiredError"
  ELSE ""

\* User.findById(id)
FindById(id) == IF id \in Users THEN {id} ELSE {}

\* Mutant: the scheme of the header is not looked at.
AuthAnyScheme(req, t) ==
  IF ~Has(req, "Authorization") \/ req.Authorization = << >>
  THEN Unauthorized("No authorization token provided")
  ELSE
    LET token == req.Authorization[2]
    IN IF Verify(token, t) = "TokenExpiredError"
       THEN Unauthorized("Token has expired")
       ELSE IF Verify(token, t) = "JsonWebTokenError"
       THEN Unauthorized("Invalid token")
       ELSE IF FindById(token.userId) = {}
       THEN Unauthorized("User not found")
       ELSE [next |-> TRUE, user |-> token.userId, token |-> token]

\* What auth does with req at clock t: the 401 it sends, or next() with
\* req.user and req.token set.
Auth(req, t) ==
  IF ~Has(req, "Authorization") \/ req.Authorization = << >>
  THEN Unauthorized("No authorization token provided")
  ELSE IF req.Authorization[1] # "Bearer"
  THEN Unauthorized("Invalid token format. Use Bearer scheme")
  ELSE
    LET token == req.Authorization[2]
    IN IF Verify(token, t) = "TokenExpiredError"
       THEN Unauthorized("Token has expired")
       ELSE IF Verify(token, t) = "JsonWebTokenError"
       THEN Unauthorized("Invalid token")
       ELSE IF FindById(token.userId) = {}
       THEN Unauthorized("User not found")
       ELSE [next |-> TRUE, user |-> token.userId, token |-> token]

----------------------------------------------------------------------------
(* The requests the model issues.                                          *)

\* The _ids of the collection.  A handler addresses one document by its _id
\* and reads no other, so the store holds one document at a time; a request
\* naming the _id before its create or after its delete finds nothing.
Ids == {1}

SplitAmounts == {2, 3}

\* The users a create body names in its splits.
Participants == {"u1", "u2"}

SplitInputs ==
  {[user |-> u, amount |-> a] @@ p :
     u \in Participants, a \in SplitAmounts, p \in {Empty, [paid |-> TRUE]}}

SplitLists == UNION {[1..n -> SplitInputs] : n \in 0..MaxSplits}

\* Bodies whose fields pass the schema's validators.
WellFormedBodies ==
  {[amount |-> 5, category |-> "food"] @@ t @@ s @@ f :
     t \in {Empty} \cup {[totalAmount |-> x] : x \in {0, 3, 2 * MaxSplits + 1}},
     s \in {Empty} \cup {[splits |-> l] : l \in SplitLists},
     f \in {Empty, [isSettled |-> TRUE]}}

\* Bodies a schema validator refuses.
MalformedBodies ==
  {[category |-> "food"],
   [amount |-> 0 - 1, category |-> "food"],
   [amount |-> 5, category |-> "bogus"],
   [amount |-> 5, category |-> "food", totalAmount |-> 0 - 3],
   [amount |-> 5, category |-> "food", totalAmount |-> 3,
    splits |-> <<[user |-> "u2", amount |-> 0 - 3]>>]}

CreateBodies == WellFormedBodies \cup MalformedBodies

PatchBodies ==
  {[amount |-> 3],
   [amount |-> 0 - 1],
   [category |-> "bogus"],
   [isSettled |-> TRUE],
   [amount |-> 3, isSettled |-> TRUE],
   [totalAmount |-> 9],
   [splits |-> <<[user |-> "u2", amount |-> 3, paid |-> FALSE, settledAt |-> 0]>>]}

\* The bodies SpecConc draws: what interleaves is the reading and writing
\* of paid flags and of one whitelisted field, so the amounts are fixed.
ConcCreateBodies ==
  {[amount |-> 5, category |-> "food", totalAmount |-> 2 * MaxSplits, splits |-> l] :
     l \in [1..MaxSplits ->
              {[user |-> u, amount |-> 2] @@ p :
                 u \in Participants, p \in {Empty, [paid |-> TRUE]}}]}

ConcPatchBodies == {[amount |-> 3], [isSettled |-> TRUE]}

NoResponse == [op |-> "none", status |-> 0, error |-> ""]
Idle == [phase |-> "idle"]

Init ==
  /\ store = Empty
  /\ nextId = 1
  /\ now = 1
  /\ resp = NoResponse
  /\ reqs = [u \in Users |-> Idle]

\* The clock after a handler has read it: new Date() never runs backwards,
\* and readings from MaxClock on are not told apart.
Later(t) == IF t < MaxClock THEN t + 1 ELSE t

----------------------------------------------------------------------------
(* Spec: requests one at a time.                                           *)

createExpenditure(c, body) ==
  /\ nextId \in Ids
  /\ LET r == CreateResult(store, nextId, c, body)
     IN /\ store' = r.store
        /\ resp' = r.resp
        /\ nextId' = IF r.resp.status = 201 THEN nextId + 1 ELSE nextId
  /\ UNCHANGED <<now, reqs>>

markSplitAsPaid(c, id) ==
  /\ LET r == MarkPaidResult(store, now, c, id, FindOneMarkPaid(store, c, id))
     IN /\ store' = r.store
        /\ resp' = r.resp
  /\ now' = Later(now)
  /\ UNCHANGED <<nextId, reqs>>

updateExpenditure(c, id, body) ==
  /\ LET r == PatchResult(store, c, id, body)
     IN /\ store' = r.store
        /\ resp' = r.resp
  /\ UNCHANGED <<nextId, now, reqs>>

deleteExpenditure(c, id) ==
  /\ LET r == DeleteResult(store, c, id)
     IN /\ store' = r.store
        /\ resp' = r.resp
  /\ UNCHANGED <<nextId, now, reqs>>

Next ==
  \/ \E c \in Creators, body \in CreateBodies : createExpenditure(c, body)
  \/ \E c \in Users, id \in Ids : markSplitAsPaid(c, id)
  \/ \E c \in Users, id \in Ids, body \in PatchBodies : updateExpenditure(c, id, body)
  \/ \E c \in Users, id \in Ids : deleteExpenditure(c, id)

Spec == Init /\ [][Next]_vars

\* The requests that bear on settling, every mark-paid taken again and
\* again: a user whose mark-paid would still change something does send it.
\* The split lists are those of ConcCreateBodies: any participants, the same
\* one twice included, each split unpaid or created paid.
NextFair ==
  \/ \E c \in Creators, body \in ConcCreateBodies : createExpenditure(c, body)
  \/ \E c \in Users, id \in Ids : markSplitAsPaid(c, id)
  \/ \E c \in Users, id \in Ids : deleteExpenditure(c, id)

SpecFair ==
  /\ Init /\ [][NextFair]_vars
  /\ \A c \in Users : \A id \in Ids : WF_vars(markSplitAsPaid(c, id))

----------------------------------------------------------------------------
(* SpecConc: the handlers of different users interleave.  A handler runs   *)
(* to its await on findOne in one step and from the result of findOne to   *)
(* its response in another; create and delete are one store call each.     *)
(* reqs[c] is c's request: idle, found (findOne has answered, the rest of  *)
(* the handler is still to run) or done (the response).  A handler whose    *)
(* findOne answers null touches the store no more and is done at once.     *)

Found(op, id, body, found) ==
  [phase |-> "found", op |-> op, id |-> id, body |-> body, found |-> found]

Done(op, id, status) ==
  [phase |-> "done", op |-> op, id |-> id, status |-> status]

createStep(c, body) ==
  /\ nextId \in Ids
  /\ LET r == CreateResult(store, nextId, c, body)
     IN /\ r.resp.status = 201
        /\ store' = r.store
        /\ nextId' = nextId + 1
  /\ UNCHANGED <<now, resp, reqs>>

deleteStep(c, id) ==
  /\ LET r == DeleteResult(store, c, id)
     IN /\ r.resp.status = 200
        /\ store' = r.store
  /\ UNCHANGED <<nextId, now, resp, reqs>>

markPaidFind(c, id) ==
  /\ reqs[c].phase # "found"
  /\ LET found == FindOneMarkPaid(store, c, id)
     IN reqs' = [reqs EXCEPT ![c] =
                   IF found = {} THEN Done("markPaid", id, 404)
                   ELSE Found("markPaid", id, Empty, found)]
  /\ UNCHANGED <<store, nextId, now, resp>>

markPaidSave(c) ==
  /\ reqs[c].phase = "found"
  /\ reqs[c].op = "markPaid"
  /\ LET r == MarkPaidResult(store, now, c, reqs[c].id, reqs[c].found)
     IN /\ store' = r.store
        /\ reqs' = [reqs EXCEPT ![c] = Done("markPaid", reqs[c].id, r.resp.status)]
  /\ now' = Later(now)
  /\ UNCHANGED <<nextId, resp>>

updateFind(c, id, body) ==
  /\ reqs[c].phase # "found"
  /\ LET found == FindOneOwned(store, c, id)
     IN reqs' = [reqs EXCEPT ![c] =
                   IF ~isValidOperation(body) THEN Done("update", id, 400)
                   ELSE IF found = {} THEN Done("update", id, 404)
                   ELSE Found("update", id, body, found)]
  /\ UNCHANGED <<store, nextId, now, resp>>

updateSave(c) ==
  /\ reqs[c].phase = "found"
  /\ reqs[c].op = "update"
  /\ LET r == UpdateResult(store, c, reqs[c].id, reqs[c].body, reqs[c].found)
     IN /\ store' = r.store
        /\ reqs' = [reqs EXCEPT ![c] = Done("update", reqs[c].id, r.resp.status)]
  /\ UNCHANGED <<nextId, now, resp>>

NextConc ==
  \/ \E c \in Creators, body \in ConcCreateBodies : createStep(c, body)
  \/ \E c \in Users, id \in Ids : deleteStep(c, id)
  \/ \E c \in Users, id \in Ids : markPaidFind(c, id)
  \/ \E c \in Users : markPaidSave(c)
  \/ \E c \in Users, id \in Ids, body \in ConcPatchBodies : updateFind(c, id, body)
  \/ \E c \in Users : updateSave(c)

SpecConc == Init /\ [][NextConc]_vars

----------------------------------------------------------------------------
(* SpecLedger: a collection of up to MaxDocs expenditures and the handlers *)
(* that read it, requests one at a time.  Every body carries its date and  *)
(* its tags.  The clock already reads MaxClock when the first request      *)
(* comes: the handlers that read the collection read no settledAt.         *)
(* Of a list response the page and its pagination are kept; SpecShared     *)
(* keeps the whole body.                                                   *)

LedgerIds == 1..MaxDocs

LedgerBodies ==
  {[amount |-> 4, category |-> "food", date |-> 1, tags |-> {"trip"},
    splits |-> <<[user |-> "u2", amount |-> 4]>>],
   [amount |-> 4, category |-> "other", date |-> 2, tags |-> {}, totalAmount |-> 2],
   [amount |-> 4, category |-> "food", date |-> 2, tags |-> {},
    splits |-> <<[user |-> "u2", amount |-> 2], [user |-> "u3", amount |-> 2]>>],
   [amount |-> 4, category |-> "food", date |-> 1, tags |-> {},
    totalAmount |-> 10, splits |-> <<[user |-> "u2", amount |-> 7]>>],
   [amount |-> 4, category |-> "bogus", date |-> 1, tags |-> {}]}

LedgerPatchBodies == {[amount |-> 4], [isSettled |-> TRUE]}

Pages == {1, 2}
Limits == {1, 2}

LedgerQueries ==
  {Empty,
   [category |-> "food"], [category |-> "other"],
   [tag |-> "trip"],
   [startDate |-> 2], [endDate |-> 1],
   [minAmount |-> 3], [minAmount |-> 0], [maxAmount |-> 3], [maxAmount |-> 0],
   [splitType |-> "paid"], [splitType |-> "owed"], [splitType |-> "all"],
   [isSettled |-> "true"], [isSettled |-> "false"],
   [category |-> "food", splitType |-> "owed", isSettled |-> "false"]}
    \cup {[page |-> p, limit |-> l] : p \in Pages, l \in Limits}
    \cup {[category |-> "food", page |-> 2, limit |-> 1]}

InitLedger ==
  /\ store = Empty
  /\ nextId = 1
  /\ now = MaxClock
  /\ resp = NoResponse
  /\ reqs = [u \in Users |-> Idle]

\* POST /expenditures while the collection holds fewer than MaxDocs _ids.
createListed(c, body) ==
  /\ nextId \in LedgerIds
  /\ LET r == CreateResult(store, nextId, c, body)
     IN /\ store' = r.store
        /\ resp' = r.resp
        /\ nextId' = IF r.resp.status = 201 THEN nextId + 1 ELSE nextId
  /\ UNCHANGED <<now, reqs>>

getExpenditures(c, q) ==
  /\ \E body \in ListResponses(store, c, q) :
       resp' = [op |-> "list", status |-> 200, error |-> "", body |-> body]
  /\ UNCHANGED <<store, nextId, now, reqs>>

getSettlementSummary(c) ==
  /\ resp' = [op |-> "settlements", status |-> 200, error |-> "",
              body |-> SettlementResponse(store, c)]
  /\ UNCHANGED <<store, nextId, now, reqs>>

NextLedger ==
  \/ \E c \in Creators, body \in LedgerBodies : createListed(c, body)
  \/ \E c \in Users, id \in LedgerIds : markSplitAsPaid(c, id)
  \/ \E c \in Users, id \in LedgerIds, body \in LedgerPatchBodies :
       updateExpenditure(c, id, body)
  \/ \E c \in Users, id \in LedgerIds : deleteExpenditure(c, id)
  \/ \E c \in Users, q \in LedgerQueries : getExpenditures(c, q)
  \/ \E c \in Users : getSettlementSummary(c)

SpecLedger == InitLedger /\ [][NextLedger]_vars

----------------------------------------------------------------------------
(* SpecShared: expenditures of several payers.  Two users create           *)
(* expenditures that name each other and a third user in their splits, and *)
(* every user reads single expenditures, balances and statistics.  One     *)
(* route is taken from the request's headers on: auth in front of GET      *)
(* /expenditures/settlements.  The other actions are the handlers as auth  *)
(* calls them, req.user being c.                                           *)

SharedCreates ==
  {[c |-> "u1",
    body |-> [amount |-> 4, category |-> "food", date |-> 1,
              splits |-> <<[user |-> "u2", amount |-> 4]>>]],
   [c |-> "u1",
    body |-> [amount |-> 3, category |-> "other", date |-> 31, totalAmount |-> 4,
              splits |-> <<[user |-> "u3", amount |-> 1],
                           [user |-> "u2", amount |-> 3]>>]],
   [c |-> "u2",
    body |-> [amount |-> 4, category |-> "food", date |-> 2,
              user |-> "u3", paidBy |-> "u3",
              splits |-> <<[user |-> "u1", amount |-> 4]>>]]}

StatisticsQueries == {Empty, [startDate |-> 2], [endDate |-> 2]}

SharedQueries ==
  {Empty,
   [category |-> "food"],
   [splitType |-> "owed"],
   [category |-> "food", splitType |-> "owed"]}

\* Tokens of a user and of an identity the User collection does not hold,
\* expired at the model's clock or not, signed with JWT_SECRET or not.
Tokens ==
  [userId : {"u1", "u9"}, exp : {MaxClock, MaxClock + 1}, signed : BOOLEAN]

AuthRequests ==
  {Empty, [Authorization |-> << >>]}
    \cup {[Authorization |-> <<scheme, token>>] :
            scheme \in {"Bearer", "Basic"}, token \in Tokens}

getExpenditure(c, id) ==
  /\ resp' = GetResult(store, c, id)
  /\ UNCHANGED <<store, nextId, now, reqs>>

\* GET /expenditures, the response with its summaries.
getExpendituresBody(c, q) ==
  /\ \E body \in ListBodies(store, c, q) :
       resp' = [op |-> "list", status |-> 200, error |-> "", body |-> body]
  /\ UNCHANGED <<store, nextId, now, reqs>>

getStatistics(c, q) ==
  /\ resp' = [op |-> "statistics", status |-> 200, error |-> "",
              body |-> StatisticsResponse(store, c, q)]
  /\ UNCHANGED <<store, nextId, now, reqs>>

\* router.get('/settlements', auth, getSettlementSummary)
auth(req) ==
  LET a == Auth(req, now)
  IN IF a.next
     THEN getSettlementSummary(a.user)
     ELSE /\ resp' = [op |-> "auth", status |-> a.status, error |-> a.error]
          /\ UNCHANGED <<store, nextId, now, reqs>>

NextShared ==
  \/ \E r \in SharedCreates : createListed(r.c, r.body)
  \/ \E c \in Users, id \in LedgerIds : markSplitAsPaid(c, id)
  \/ \E c \in Users, id \in LedgerIds : deleteExpenditure(c, id)
  \/ \E c \in Users, id \in LedgerIds : getExpenditure(c, id)
  \/ \E c \in Users : getSettlementSummary(c)
  \/ \E c \in Users, q \in SharedQueries : getExpendituresBody(c, q)
  \/ \E c \in Users, q \in StatisticsQueries : getStatistics(c, q)
  \/ \E req \in AuthRequests : auth(req)

SpecShared == InitLedger /\ [][NextShared]_vars

----------------------------------------------------------------------------
(* The claims.                                                             *)

Stored == DOMAIN store
Splits(id) == store[id].splits
SplitIdx(id) == DOMAIN store[id].splits

\* The spec's acceptance condition: S is empty or |sum(S.amount) - T| <= 0.01.
Accepts(T, S) == S = << >> \/ Abs(SumAmounts(S) - T) <= 1

\* C1: every persisted expenditure with a non-empty split list has
\* |sum of split amounts - totalAmount| <= 0.01.
C1_SplitSumInvariant ==
  \A id \in Stored :
    Len(Splits(id)) > 0 =>
      Abs(SumAmounts(Splits(id)) - store[id].totalAmount) <= 1

\* C1 witness: a mark-paid has been saved on an expenditure whose splits
\* differ from its total by exactly 0.01.
C1_Witness ==
  /\ resp.op = "markPaid" /\ resp.status = 200
  /\ \E id \in Stored : Abs(SumAmounts(Splits(id)) - store[id].totalAmount) = 1

\* C2: for every persisted expenditure with a non-empty split list,
\* isSettled is true if and only if every split is paid.
C2_SettledIffAllPaid ==
  \A id \in Stored :
    Len(Splits(id)) > 0 => (store[id].isSettled <=> AllPaid(Splits(id)))

\* C3: a mark-paid by c leaves paid and settledAt of every split of another
\* participant unchanged, in every expenditure, and a split goes from unpaid
\* to paid only in a mark-paid by its own participant.
C3_OthersSplitsUntouched ==
  [][/\ \A c \in Users, id \in Ids :
          resp'.op = "markPaid" /\ markSplitAsPaid(c, id) =>
            \A e \in Stored :
              /\ e \in DOMAIN store'
              /\ \A i \in SplitIdx(e) :
                   Splits(e)[i].user # c =>
                     /\ store'[e].splits[i].paid = Splits(e)[i].paid
                     /\ store'[e].splits[i].settledAt = Splits(e)[i].settledAt
     /\ \A e \in Stored \cap DOMAIN store' :
          \A i \in SplitIdx(e) \cap DOMAIN store'[e].splits :
            ~Splits(e)[i].paid /\ store'[e].splits[i].paid =>
              \E id \in Ids : markSplitAsPaid(Splits(e)[i].user, id)
    ]_vars

\* C3 witness: the owner has marked their own split paid and another
\* participant's split of the same expenditure is still unpaid.
C3_Witness ==
  /\ resp.op = "markPaid" /\ resp.status = 200
  /\ \E id \in Stored : \E i, j \in SplitIdx(id) :
       /\ Splits(id)[i].user = store[id].user
       /\ Splits(id)[i].paid /\ Splits(id)[i].settledAt # 0
       /\ Splits(id)[j].user # store[id].user
       /\ ~Splits(id)[j].paid

\* Both p's and q's mark-paid on id have been answered 200.
BothMarkedPaid(p, q, id) ==
  /\ p # q
  /\ id \in Stored
  /\ reqs[p] = Done("markPaid", id, 200)
  /\ reqs[q] = Done("markPaid", id, 200)

\* C4: once the mark-paid requests of two different participants on the
\* same expenditure have both completed, under any interleaving of their
\* reads and writes, both participants' splits are paid.
C4_BothWritesKept ==
  \A p \in Users, q \in Users, id \in Ids :
    BothMarkedPaid(p, q, id) =>
      /\ Splits(id)[FindSplit(Splits(id), p)].paid
      /\ Splits(id)[FindSplit(Splits(id), q)].paid

\* C4 witness: both requests completed after both had read the expenditure
\* before either wrote it (only then is every split paid and isSettled
\* still false).
C4_Witness ==
  \E p \in Users, q \in Users, id \in Ids :
    /\ BothMarkedPaid(p, q, id)
    /\ AllPaid(Splits(id))
    /\ ~store[id].isSettled

\* C5: once the mark-paid requests of two different participants on the
\* same expenditure have both completed, the stored isSettled equals
\* 'every split is paid'.
C5_SettledAfterBoth ==
  \A p \in Users, q \in Users, id \in Ids :
    BothMarkedPaid(p, q, id) =>
      (store[id].isSettled <=> AllPaid(Splits(id)))

\* C6: a mark-paid by a caller holding an unpaid split in an unsettled
\* expenditure is answered 200; the caller's unpaid split is then paid with
\* settledAt set, isSettled is true exactly when all splits are paid, and
\* amounts, participants, totalAmount, paidBy and owner are unchanged.
C6_MarkPaidEffect ==
  [][\A c \in Users, id \in Ids :
       /\ markSplitAsPaid(c, id)
       /\ id \in Stored
       /\ ~store[id].isSettled
       /\ \E i \in SplitIdx(id) : Splits(id)[i].user = c /\ ~Splits(id)[i].paid
       => /\ resp'.status = 200
          /\ id \in DOMAIN store'
          /\ \E i \in SplitIdx(id) :
               /\ Splits(id)[i].user = c /\ ~Splits(id)[i].paid
               /\ store'[id].splits[i].paid
               /\ store'[id].splits[i].settledAt # 0
          /\ store'[id].isSettled <=> AllPaid(store'[id].splits)
          /\ DOMAIN store'[id].splits = SplitIdx(id)
          /\ \A i \in SplitIdx(id) :
               /\ store'[id].splits[i].user = Splits(id)[i].user
               /\ store'[id].splits[i].amount = Splits(id)[i].amount
          /\ store'[id].totalAmount = store[id].totalAmount
          /\ store'[id].paidBy = store[id].paidBy
          /\ store'[id].user = store[id].user
    ]_vars

\* C6 holds of a caller who holds exactly one split: the duplicate splits of
\* one participant are what refutes it.
C6_SingleSplitEffect ==
  [][\A c \in Users, id \in Ids :
       /\ markSplitAsPaid(c, id)
       /\ id \in Stored
       /\ ~store[id].isSettled
       /\ \E i \in SplitIdx(id) : Splits(id)[i].user = c /\ ~Splits(id)[i].paid
       /\ Cardinality({i \in SplitIdx(id) : Splits(id)[i].user = c}) = 1
       => /\ resp'.status = 200
          /\ id \in DOMAIN store'
          /\ \E i \in SplitIdx(id) :
               /\ Splits(id)[i].user = c
               /\ store'[id].splits[i].paid
               /\ store'[id].splits[i].settledAt = now
          /\ store'[id].isSettled <=> AllPaid(store'[id].splits)
          /\ \A i \in SplitIdx(id) :
               Splits(id)[i].user # c => store'[id].splits[i] = Splits(id)[i]
          /\ DOMAIN store'[id].splits = SplitIdx(id)
          /\ \A i \in SplitIdx(id) :
               /\ store'[id].splits[i].user = Splits(id)[i].user
               /\ store'[id].splits[i].amount = Splits(id)[i].amount
          /\ store'[id].totalAmount = store[id].totalAmount
          /\ store'[id].paidBy = store[id].paidBy
          /\ store'[id].user = store[id].user
    ]_vars

\* C7: every mark-paid on an expenditure whose isSettled is true is answered
\* 404 and leaves the store unchanged.
C7_SettledRefusesMarkPaid ==
  [][\A c \in Users, id \in Ids :
       id \in Stored /\ store[id].isSettled /\ markSplitAsPaid(c, id)
         => resp'.status = 404 /\ store' = store
    ]_vars

\* C7 witness: a mark-paid has been answered 404 on an expenditure that
\* mark-paid requests had settled.
C7_Witness ==
  /\ resp.op = "markPaid" /\ resp.status = 404
  /\ \E id \in Stored :
       /\ store[id].isSettled
       /\ Len(Splits(id)) > 0
       /\ \A i \in SplitIdx(id) : Splits(id)[i].paid /\ Splits(id)[i].settledAt # 0

\* C8: a mark-paid by a caller whose own split is already paid is answered
\* 404 and changes nothing in the store, whether or not other splits are
\* still unpaid.
C8_RemarkRefused ==
  [][\A c \in Users, id \in Ids :
       /\ markSplitAsPaid(c, id)
       /\ id \in Stored
       /\ \E i \in SplitIdx(id) : Splits(id)[i].user = c
       /\ \A i \in SplitIdx(id) : Splits(id)[i].user = c => Splits(id)[i].paid
       => resp'.status = 404 /\ store' = store
    ]_vars

\* C9: no step changes a persisted split's paid flag from true to false, and
\* a split disappears only when its expenditure is deleted.
C9_PaidIsTerminal ==
  [][\A id \in Stored :
       IF id \in DOMAIN store'
       THEN /\ DOMAIN store'[id].splits = SplitIdx(id)
            /\ \A i \in SplitIdx(id) :
                 Splits(id)[i].paid => store'[id].splits[i].paid
       ELSE \E c \in Users : deleteExpenditure(c, id)
    ]_vars

\* C9 witness: an update has been saved on an expenditure holding a split
\* that a mark-paid had paid.
C9_Witness ==
  /\ resp.op = "update" /\ resp.status = 200
  /\ \E id \in Stored : \E i \in SplitIdx(id) :
       Splits(id)[i].paid /\ Splits(id)[i].settledAt # 0

\* C10: the pre-persistence check accepts totalAmount T with split list S if
\* and only if S is empty or |sum(S.amount) - T| <= 0.01, on every save: a
\* create whose fields pass the schema's validators is persisted exactly
\* then, and an update or mark-paid is saved only on a document it accepts.
C10_ValidatorDecision ==
  /\ nextId \in Ids =>
       \A c \in Creators, body \in CreateBodies :
         ValidationErrors(Candidate(c, body)) = {} =>
           (CreateResult(store, nextId, c, body).resp.status = 201 <=>
              Accepts(Candidate(c, body).totalAmount, Candidate(c, body).splits))
  /\ \A c \in Users, id \in Ids :
       LET r == MarkPaidResult(store, now, c, id, FindOneMarkPaid(store, c, id))
       IN r.resp.status = 200 =>
            Accepts(r.store[id].totalAmount, r.store[id].splits)
  /\ \A c \in Users, id \in Ids, body \in PatchBodies :
       LET r == UpdateResult(store, c, id, body, FindOneOwned(store, c, id))
       IN isValidOperation(body) /\ r.resp.status = 200 =>
            Accepts(r.store[id].totalAmount, r.store[id].splits)

\* C10 witness: a create whose splits differ from the total by exactly 0.01
\* has been persisted.
C10_Witness ==
  /\ resp.op = "create" /\ resp.status = 201
  /\ \E id \in Stored :
       /\ Len(Splits(id)) > 0
       /\ Abs(SumAmounts(Splits(id)) - store[id].totalAmount) = 1

\* C11 as claimed: a create with a non-empty split list whose sum differs
\* from totalAmount by 0.01 or more, exactly 0.01 included, is never
\* persisted.
C11_MismatchAtToleranceFails ==
  resp.op = "create" /\ resp.status = 201 =>
    \A id \in Stored :
      Len(Splits(id)) > 0 =>
        ~(Abs(SumAmounts(Splits(id)) - store[id].totalAmount) >= 1)

\* C11: a create with a non-empty split list whose sum differs from
\* totalAmount by more than 0.01 always fails and persists nothing.
C11_MismatchBeyondToleranceFails ==
  nextId \in Ids =>
    \A c \in Creators, body \in CreateBodies :
      LET doc == Candidate(c, body)
          r == CreateResult(store, nextId, c, body)
      IN /\ Len(doc.splits) > 0
         /\ \A i \in DOMAIN doc.splits : Has(doc.splits[i], "amount")
         /\ Has(doc, "totalAmount")
         /\ Abs(SumAmounts(doc.splits) - doc.totalAmount) > 1
         => r.resp.status \in {400, 500} /\ r.store = store

\* C11 witness: a create has been refused by the split-sum check.
C11_Witness ==
  /\ resp = ErrorHandler("create", PreSaveMessage)
  /\ Stored = {}

\* C13: a create that is refused, the split-sum mismatch included, is
\* answered 400 with the validation-error body, never 500.
C13_MismatchAnswered400 ==
  resp.op = "create" /\ resp.status # 201 =>
    resp.status = 400 /\ resp.error = "Validation failed"

\* C14: a mark-paid is answered 200 only for a caller who is the participant
\* of some split of the expenditure, and a mark-paid by a user who holds no
\* split in a stored unsettled expenditure is answered with the error
\* "Split not found for this user" and leaves the store unchanged.
C14_NonParticipantSplitNotFound ==
  [][\A c \in Users, id \in Ids :
       markSplitAsPaid(c, id) /\ id \in Stored =>
         /\ resp'.status = 200 => \E i \in SplitIdx(id) : Splits(id)[i].user = c
         /\ (~store[id].isSettled /\ \A i \in SplitIdx(id) : Splits(id)[i].user # c)
              => /\ resp'.status # 200
                 /\ resp'.error = "Split not found for this user"
                 /\ store' = store
    ]_vars

\* What holds of C14's case: the non-participant is refused with 404 and the
\* store is unchanged, under the message of the findOne miss.
C14_NonParticipantRefused ==
  [][\A c \in Users, id \in Ids :
       markSplitAsPaid(c, id) /\ id \in Stored =>
         /\ resp'.status = 200 => \E i \in SplitIdx(id) : Splits(id)[i].user = c
         /\ (\A i \in SplitIdx(id) : Splits(id)[i].user # c)
              => /\ resp'.status = 404
                 /\ resp'.error = "Expenditure not found or already settled"
                 /\ store' = store
    ]_vars

\* C19: no PATCH, by any caller with any body, changes an expenditure's
\* splits, totalAmount, paidBy, owner or isSettled, and a body naming a field
\* outside the whitelist is answered 400 and leaves the store unchanged.
C19_PatchFrame ==
  \A c \in Users, id \in Ids, body \in PatchBodies :
    \A r \in {PatchResult(store, c, id, body)} :
      /\ DOMAIN r.store = Stored
      /\ \A e \in Stored :
           /\ r.store[e].splits = store[e].splits
           /\ r.store[e].totalAmount = store[e].totalAmount
           /\ r.store[e].paidBy = store[e].paidBy
           /\ r.store[e].user = store[e].user
           /\ r.store[e].isSettled = store[e].isSettled
      /\ ~(DOMAIN body \subseteq
             {"amount", "category", "description", "date",
              "paymentMethod", "tags", "location"})
           => r.resp.status = 400 /\ r.store = store

\* C19 witness: a PATCH naming isSettled has been refused on an unsettled
\* expenditure that still holds an unpaid split.
C19_Witness ==
  /\ resp = InvalidUpdates
  /\ \E id \in Stored :
       /\ ~store[id].isSettled
       /\ \E i \in SplitIdx(id) : ~Splits(id)[i].paid

\* C22: a create stores amount as totalAmount when the body carries neither
\* splits nor totalAmount, and only then: a totalAmount the client supplies,
\* 0 included, is stored as given, and a body with splits gets no default.
C22_TotalAmountDefault ==
  [][\A c \in Creators, body \in WellFormedBodies :
       createExpenditure(c, body) /\ resp'.status = 201
         => /\ Has(body, "totalAmount")
                 => store'[nextId].totalAmount = body.totalAmount
            /\ ~Has(body, "totalAmount") /\ ~Has(body, "splits")
                 => store'[nextId].totalAmount = body.amount
            /\ Has(body, "splits") => Has(body, "totalAmount")
    ]_vars

\* C24: in production mode the response to an unhandled error has status 500
\* and a body without stack, without a details field and without the text of
\* the error's message.
C24_NoInternalDetail ==
  resp.status = 500 =>
    /\ ~Has(resp, "stack")
    /\ ~Has(resp, "details")
    /\ resp.error = "Internal Server Error"

\* C29: an unpaid split has no settledAt, a split's settledAt is set at the
\* step that takes its paid flag from false to true, and no later step
\* changes a settledAt once set.
C29_SettledAtSetOnce ==
  [][\A id \in Stored :
       /\ \A i \in SplitIdx(id) :
            ~Splits(id)[i].paid => Splits(id)[i].settledAt = 0
       /\ id \in DOMAIN store' =>
            \A i \in SplitIdx(id) :
              /\ store'[id].splits[i].settledAt # Splits(id)[i].settledAt
                   => /\ Splits(id)[i].settledAt = 0
                      /\ ~Splits(id)[i].paid
                      /\ store'[id].splits[i].paid
              /\ ~Splits(id)[i].paid /\ store'[id].splits[i].paid
                   => store'[id].splits[i].settledAt # 0
    ]_vars

\* C31: an expenditure with a non-empty split list that is never deleted
\* is eventually settled with every split paid, when every participant keeps
\* sending mark-paid, whatever split list the create accepted.
C31_SettlementReachable ==
  \A id \in Ids :
    <>[](id \in Stored /\ Len(store[id].splits) > 0)
      => <>(id \in Stored /\ store[id].isSettled /\ AllPaid(store[id].splits))

\* C33: on an expenditure whose isSettled is true no request sets isSettled
\* back to false or changes a split: a mark-paid changes nothing, a PATCH
\* changes the store only when the owner sends whitelisted fields, and then
\* those fields only, and a DELETE only when the owner sends it.
C33_SettledIsAbsorbing ==
  \A id \in Stored :
    store[id].isSettled =>
      \A c \in Users :
        /\ MarkPaidResult(store, now, c, id, FindOneMarkPaid(store, c, id)).store = store
        /\ \A r \in {DeleteResult(store, c, id)} :
             r.store # store =>
               /\ c = store[id].user
               /\ r.store = [e \in Stored \ {id} |-> store[e]]
        /\ \A body \in PatchBodies :
             \A r \in {PatchResult(store, c, id, body)} :
               /\ DOMAIN r.store = Stored
               /\ r.store[id].isSettled
               /\ r.store[id].splits = store[id].splits
               /\ r.store # store =>
                    /\ c = store[id].user
                    /\ DOMAIN body \subseteq
                         {"amount", "category", "description", "date",
                          "paymentMethod", "tags", "location"}
                    /\ \A k \in DOMAIN store[id] \ DOMAIN body :
                         r.store[id][k] = store[id][k]
                    /\ \A e \in Stored \ {id} : r.store[e] = store[e]

\* C33 witness: the owner's PATCH has changed the amount of an expenditure
\* that mark-paid requests had settled.
C33_Witness ==
  /\ resp.op = "update" /\ resp.status = 200
  /\ \E id \in Stored :
       /\ store[id].isSettled
       /\ store[id].amount = 3
       /\ Len(Splits(id)) > 0
       /\ \A i \in SplitIdx(id) : Splits(id)[i].paid /\ Splits(id)[i].settledAt # 0

----------------------------------------------------------------------------
(* The claims of SpecLedger.                                               *)

\* C12: a POST create that is refused, for a split-sum mismatch or for a
\* field validation failure, persists nothing: the stored expenditures are
\* the same before and after the request.
C12_RefusedCreatePersistsNothing ==
  nextId \in LedgerIds =>
    \A c \in Creators, body \in LedgerBodies :
      LET r == CreateResult(store, nextId, c, body)
      IN r.resp.status # 201 => r.store = store

\* C12 witness: a create has been refused for its split sum while the
\* collection holds an expenditure.
C12_Witness ==
  /\ resp = ErrorHandler("create", PreSaveMessage)
  /\ Stored # {}

\* No expenditure but id involves u or p in an unsettled balance.
OnlyShared(id, u, p) ==
  \A e \in Stored \ {id} :
    ~SettlementMatch(store[e], u) /\ ~SettlementMatch(store[e], p)

\* id is paid by u, unsettled, and its only split is unpaid and owed by p.
SingleSplitOwed(id, u, p) ==
  /\ store[id].paidBy = u
  /\ ~store[id].isSettled
  /\ Len(Splits(id)) = 1
  /\ Splits(id)[1].user = p
  /\ ~Splits(id)[1].paid
  /\ Splits(id)[1].amount > 0

\* C15: when U is the payer of one unsettled expenditure whose only split,
\* of amount a, is owed by P and unpaid, the settlements of U are exactly one
\* row, for P with totalOwed = a, and those of P exactly one row, for U with
\* totalOwed = -a.
C15_SingleSplitBalance ==
  \A u \in Users, p \in Users, id \in Stored :
    u # p /\ SingleSplitOwed(id, u, p) /\ OnlyShared(id, u, p) =>
      /\ \E row \in Settlements(store, u) :
           /\ Settlements(store, u) = {row}
           /\ row.userId = p
           /\ row.totalOwed = Splits(id)[1].amount
      /\ \E row \in Settlements(store, p) :
           /\ Settlements(store, p) = {row}
           /\ row.userId = u
           /\ row.totalOwed = 0 - Splits(id)[1].amount

\* C15 witness: the participant of a single-split expenditure has been
\* answered one row with a negative totalOwed.
C15_Witness ==
  /\ resp.op = "settlements"
  /\ \E u \in Users, p \in Users, id \in Stored :
       /\ u # p /\ SingleSplitOwed(id, u, p) /\ OnlyShared(id, u, p)
       /\ \E row \in resp.body.settlements :
            /\ resp.body.settlements = {row}
            /\ row.userId = u
            /\ row.totalOwed = 0 - Splits(id)[1].amount
       /\ resp.body.summary.totalToPay = Splits(id)[1].amount

\* The collection without its settled expenditures.
Unsettled == [id \in {e \in Stored : ~store[e].isSettled} |-> store[id]]

\* C16: every transaction of U's settlements is of an unsettled expenditure
\* of which U is payer or split participant; the settled expenditures add
\* nothing to the response; and when every expenditure U shares is settled,
\* there is no row and totalToReceive and totalToPay are 0.
C16_SettledContributesNothing ==
  \A u \in Users :
    /\ \A row \in Settlements(store, u) : \A t \in row.transactions :
         /\ t._id \in Stored
         /\ ~store[t._id].isSettled
         /\ store[t._id].paidBy = u \/ IsParticipant(store[t._id], u)
    /\ SettlementResponse(store, u) = SettlementResponse(Unsettled, u)
    /\ (\A e \in Stored :
          store[e].paidBy = u \/ IsParticipant(store[e], u) => store[e].isSettled)
         => SettlementResponse(store, u) =
              [settlements |-> {},
               summary |-> [totalToReceive |-> 0, totalToPay |-> 0]]

\* C16 witness: settlements have been answered empty on a collection whose
\* expenditures were all settled by the mark-paid of every participant.
C16_Witness ==
  /\ resp.op = "settlements"
  /\ resp.body.settlements = {}
  /\ resp.body.summary = [totalToReceive |-> 0, totalToPay |-> 0]
  /\ Stored # {}
  /\ \A id \in Stored :
       /\ store[id].isSettled
       /\ Len(Splits(id)) > 1
       /\ \A i \in SplitIdx(id) : Splits(id)[i].paid /\ Splits(id)[i].settledAt # 0

\* The filter semantics C17 states: every parameter the request carries is
\* applied, the value 0 included.
FiltersSatisfied(doc, c, q) ==
  /\ doc.user = c \/ IsParticipant(doc, c)
  /\ Has(q, "startDate") => doc.date >= q.startDate
  /\ Has(q, "endDate") => doc.date <= q.endDate
  /\ Has(q, "category") => doc.category = q.category
  /\ Has(q, "tag") => q.tag \in doc.tags
  /\ Has(q, "minAmount") => doc.totalAmount >= q.minAmount
  /\ Has(q, "maxAmount") => doc.totalAmount <= q.maxAmount
  /\ Has(q, "splitType") /\ q.splitType = "paid" => doc.paidBy = c
  /\ Has(q, "splitType") /\ q.splitType = "owed" =>
       IsParticipant(doc, c) /\ doc.paidBy # c
  /\ Has(q, "isSettled") => doc.isSettled = (q.isSettled = "true")

\* C17: for every combination of filters, a stored expenditure is returned,
\* pagination aside, if and only if the caller is its owner or a split
\* participant and it satisfies every filter the request carries.
C17_FilterSemantics ==
  \A c \in Users, q \in LedgerQueries :
    Find(store, c, q) = {id \in Stored : FiltersSatisfied(store[id], c, q)}

\* What holds of C17's case: the same for every request whose maxAmount is
\* not 0.
C17_FiltersExceptZeroBound ==
  \A c \in Users, q \in LedgerQueries :
    ~(Has(q, "maxAmount") /\ q.maxAmount = 0) =>
      Find(store, c, q) = {id \in Stored : FiltersSatisfied(store[id], c, q)}

Min(a, b) == IF a < b THEN a ELSE b
Max(a, b) == IF a < b THEN b ELSE a

\* The request without its page and limit.
Filters(q) == [k \in DOMAIN q \ {"page", "limit"} |-> q[k]]

\* The requests that page: Empty is page 1 with limit 10.
PagedQueries ==
  {q \in LedgerQueries : q = Empty \/ Has(q, "page") \/ Has(q, "limit")}

\* C18: with N records matching the filters, page >= 1 and limit >= 1,
\* total = N whatever page and limit are, pages = ceil(N / limit), hasMore
\* holds exactly when page * limit < N, and the slice returned has
\* min(limit, max(0, N - (page - 1) * limit)) records, all of them different
\* matching records.
C18_Pagination ==
  \A c \in Users, q \in PagedQueries :
    \A N \in {Cardinality({id \in Stored : QueryMatches(store[id], c, Filters(q))})},
       p \in {IF Has(q, "page") THEN q.page ELSE 1},
       l \in {IF Has(q, "limit") THEN q.limit ELSE 10} :
      p >= 1 /\ l >= 1 =>
        \A r \in ListResponses(store, c, q) :
          /\ r.pagination.total = N
          /\ r.pagination.pages * l >= N
          /\ (r.pagination.pages - 1) * l < N
          /\ r.pagination.hasMore <=> p * l < N
          /\ Len(r.expenditures) = Min(l, Max(0, N - (p - 1) * l))
          /\ \A i, j \in DOMAIN r.expenditures :
               i # j => r.expenditures[i] # r.expenditures[j]
          /\ \A i \in DOMAIN r.expenditures :
               QueryMatches(store[r.expenditures[i]], c, Filters(q))

\* C18 witness: two matching records, page 1 and limit 10 have been answered
\* with total 2, pages 1, hasMore false and both records.
C18_Witness ==
  /\ resp.op = "list"
  /\ resp.body.pagination = [total |-> 2, page |-> 1, pages |-> 1, hasMore |-> FALSE]
  /\ Len(resp.body.expenditures) = 2

\* The store without id and with every other expenditure as it was.
Without(id) == [e \in Stored \ {id} |-> store[e]]

\* C20 as claimed: a PATCH or DELETE by a user other than the owner, a split
\* participant included, is answered 404 and leaves the store unchanged, and
\* a DELETE by the owner removes that expenditure and no other.
C20_OwnerOnly404 ==
  \A c \in Users, id \in Stored :
    IF store[id].user # c
    THEN /\ DeleteResult(store, c, id).resp.status = 404
         /\ DeleteResult(store, c, id).store = store
         /\ \A body \in LedgerPatchBodies :
              /\ PatchResult(store, c, id, body).resp.status = 404
              /\ PatchResult(store, c, id, body).store = store
    ELSE /\ DeleteResult(store, c, id).resp.status = 200
         /\ DeleteResult(store, c, id).store = Without(id)

\* C20: a DELETE, or a PATCH whose body names whitelisted fields only, by a
\* user other than the owner is answered 404, a PATCH naming another field
\* is answered 400, and both leave the store unchanged; a DELETE by the owner
\* removes that expenditure and no other.
C20_OwnerOnly ==
  \A c \in Users, id \in Stored :
    IF store[id].user # c
    THEN /\ DeleteResult(store, c, id).resp.status = 404
         /\ DeleteResult(store, c, id).store = store
         /\ \A body \in LedgerPatchBodies :
              /\ PatchResult(store, c, id, body).resp.status =
                   IF DOMAIN body \subseteq
                        {"amount", "category", "description", "date",
                         "paymentMethod", "tags", "location"}
                   THEN 404 ELSE 400
              /\ PatchResult(store, c, id, body).store = store
    ELSE /\ DeleteResult(store, c, id).resp.status = 200
         /\ DeleteResult(store, c, id).store = Without(id)

\* C20 witness: the owner's DELETE has removed one expenditure of two, and
\* the one left has a split participant who is not its owner.
C20_Witness ==
  /\ resp.op = "delete" /\ resp.status = 200
  /\ \E id \in Stored : \E i \in SplitIdx(id) : Splits(id)[i].user # store[id].user

----------------------------------------------------------------------------
(* The claims of SpecShared.                                               *)

\* The sum of f over S, f a function on S.
RECURSIVE Sum(_, _)
Sum(f, S) ==
  IF S = {} THEN 0
  ELSE LET x == CHOOSE y \in S : TRUE
       IN f[x] + Sum(f, S \ {x})

\* C21: a response does not tell an expenditure the caller may not see from
\* one that does not exist: for a caller who is not the owner, GET, PATCH
\* and DELETE answer on the store as they answer on the store without the
\* expenditure, and so does mark-paid for a caller who holds no split of it
\* or when it is settled, the answer being a 404.
C21_NoExistenceLeak ==
  \A c \in Users, id \in Stored :
    /\ store[id].user # c =>
         /\ GetResult(store, c, id) = GetResult(Without(id), c, id)
         /\ DeleteResult(store, c, id).resp = DeleteResult(Without(id), c, id).resp
         /\ \A body \in LedgerPatchBodies :
              PatchResult(store, c, id, body).resp
                = PatchResult(Without(id), c, id, body).resp
    /\ ~IsParticipant(store[id], c) \/ store[id].isSettled =>
         \A r \in {MarkPaidResult(store, now, c, id, FindOneMarkPaid(store, c, id))} :
           /\ r.resp.status = 404
           /\ r.resp = MarkPaidResult(Without(id), now, c, id,
                                      FindOneMarkPaid(Without(id), c, id)).resp

\* C21 witness: a GET has been answered 404 while every _id it can name is
\* stored, one expenditure settled and one with a user who holds no split.
C21_Witness ==
  /\ resp = NotFound("get")
  /\ Stored = LedgerIds
  /\ \E id \in Stored : store[id].isSettled
  /\ \E id \in Stored, c \in Users :
       ~store[id].isSettled /\ ~IsParticipant(store[id], c)

\* The user a request's token names, and the token itself.
TokenOf(req) == req.Authorization[2]

\* The request passes: a Bearer header whose token is signed, unexpired at
\* clock t, and names a user of the collection.
Authenticates(req, t) ==
  /\ Has(req, "Authorization")
  /\ req.Authorization # << >>
  /\ req.Authorization[1] = "Bearer"
  /\ TokenOf(req).signed
  /\ TokenOf(req).exp > t
  /\ TokenOf(req).userId \in Users

Rows(u) == SettlementResponse(store, u).settlements
RowTotal(u, p) ==
  IF \E row \in Rows(u) : row.userId = p
  THEN (CHOOSE row \in Rows(u) : row.userId = p).totalOwed
  ELSE 0

\* The unsettled expenditures paid by u.
PaidBy(u) == {id \in Stored : ~store[id].isSettled /\ store[id].paidBy = u}

\* The unsettled expenditures paid by p in which u holds a split.
Owing(u, p) == {id \in PaidBy(p) : IsParticipant(store[id], u)}

\* The splits of u in id, and the sum of their amounts.
OwnSplits(id, u) == {i \in SplitIdx(id) : Splits(id)[i].user = u}
OwnAmount(id, u) ==
  Sum([i \in OwnSplits(id, u) |-> Splits(id)[i].amount], OwnSplits(id, u))

\* What p still owes on id: the amounts of p's unpaid splits.
Receivable(id, p) ==
  LET unpaid == {i \in OwnSplits(id, p) : ~Splits(id)[i].paid}
  IN Sum([i \in unpaid |-> Splits(id)[i].amount], unpaid)

\* C25: for the unsettled expenditures U paid, whatever the number and the
\* order of their splits, U's settlements hold for every other participant
\* the amounts of that participant's unpaid splits, and nothing for U's own
\* split or for paid splits.
C25_PayerReceivables ==
  \A u \in Users :
    /\ \A p \in Users \ {u} :
         Owing(u, p) = {} =>
           RowTotal(u, p) = Sum([id \in PaidBy(u) |-> Receivable(id, p)], PaidBy(u))
    /\ \A row \in Rows(u) : row.userId \in Users \ {u}

ExpectedNet(u, p) ==
  Sum([id \in PaidBy(u) |-> Receivable(id, p)], PaidBy(u))
    - Sum([id \in Owing(u, p) |-> OwnAmount(id, u)], Owing(u, p))

\* C27: U's settlements hold at most one row for a counterparty, its total
\* is what the counterparty owes U less what U owes the counterparty over
\* all the unsettled expenditures of the two, and a counterparty whose net
\* is zero has no row.
C27_Netting ==
  \A u \in Users :
    /\ \A row \in Rows(u) : row.totalOwed # 0
    /\ \A p \in Users \ {u} :
         /\ Cardinality({row \in Rows(u) : row.userId = p}) <= 1
         /\ RowTotal(u, p) = ExpectedNet(u, p)

\* C27 where every unsettled expenditure has one split: the rows are the
\* nets, and equal debts in the two directions leave no row.
C27_NettingSingleSplits ==
  (\A id \in Stored : ~store[id].isSettled => Len(Splits(id)) = 1) =>
    \A u \in Users : \A p \in Users \ {u} :
      /\ Cardinality({row \in Rows(u) : row.userId = p}) <= 1
      /\ RowTotal(u, p) = ExpectedNet(u, p)
      /\ ExpectedNet(u, p) = 0 => ~\E row \in Rows(u) : row.userId = p

\* C28: totalToReceive is the sum of the positive row totals, totalToPay
\* the sum of the absolute values of the negative ones, neither is negative,
\* and their difference is the sum of the totals of all rows.
C28_ScalarSummaries ==
  \A u \in Users :
    \A r \in {SettlementResponse(store, u)} :
      LET total(S) == Sum([row \in S |-> row.totalOwed], S)
          positive == {row \in r.settlements : row.totalOwed > 0}
          negative == {row \in r.settlements : row.totalOwed < 0}
      IN /\ r.summary.totalToReceive = total(positive)
         /\ r.summary.totalToPay = 0 - total(negative)
         /\ r.summary.totalToReceive >= 0
         /\ r.summary.totalToPay >= 0
         /\ r.summary.totalToReceive - r.summary.totalToPay = total(r.settlements)

\* C28 witness: the settlements answered last hold a row to receive and a
\* row to pay, of different amounts.
C28_Witness ==
  /\ resp.op = "settlements"
  /\ \E x, y \in resp.body.settlements : x.totalOwed > 0 /\ y.totalOwed < 0
  /\ resp.body.summary.totalToReceive # resp.body.summary.totalToPay

\* C30: the statistics are those of the expenditures the caller owns, in
\* the date range asked for: overall.count is their number and
\* overall.totalAmount the sum of their amounts, the totals and counts of
\* byCategory add up to the overall ones, and with no such expenditure
\* overall is all zeros and byCategory and byMonth are empty.
C30_StatisticsOfOwner ==
  \A u \in Users, q \in StatisticsQueries :
    \A r \in {StatisticsResponse(store, u, q)} :
      LET owned == {id \in Stored :
                      /\ store[id].user = u
                      /\ Has(q, "startDate") => store[id].date >= q.startDate
                      /\ Has(q, "endDate") => store[id].date <= q.endDate}
      IN /\ r.overall.count = Cardinality(owned)
         /\ r.overall.totalAmount = Sum([id \in owned |-> store[id].amount], owned)
         /\ Sum([row \in r.byCategory |-> row.totalAmount], r.byCategory)
              = r.overall.totalAmount
         /\ Sum([row \in r.byCategory |-> row.count], r.byCategory)
              = r.overall.count
         /\ owned = {} =>
              /\ r.overall.totalAmount = 0 /\ r.overall.count = 0
              /\ r.overall.maxAmount = 0 /\ r.overall.minAmount = 0
              /\ r.overall.avgAmount = <<0, 1>>
              /\ r.byCategory = {} /\ r.byMonth = {}

\* C30 witness: the statistics answered last count one expenditure of the
\* two stored, the caller holding a split of the other, which is not theirs.
C30_Witness ==
  /\ resp.op = "statistics"
  /\ resp.body.overall.count = 1
  /\ Cardinality(Stored) = 2
  /\ \E u \in Users, id \in Stored :
       /\ resp.body = StatisticsResponse(store, u, Empty)
       /\ store[id].user # u
       /\ IsParticipant(store[id], u)
       /\ store[id].amount # resp.body.overall.totalAmount

\* C32: for every two users U and P, the net U's settlements report for P,
\* 0 when P has no row, is minus the net P's settlements report for U,
\* whatever the number of splits of the expenditures.
C32_Antisymmetric ==
  \A u \in Users : \A p \in Users \ {u} :
    RowTotal(u, p) = 0 - RowTotal(p, u)

\* C32 where every unsettled expenditure has one split.
C32_AntisymmetricSingleSplits ==
  (\A id \in Stored : ~store[id].isSettled => Len(Splits(id)) = 1) =>
    \A u \in Users : \A p \in Users \ {u} :
      RowTotal(u, p) = 0 - RowTotal(p, u)

\* PATCH bodies that name the owner or the payer.
OwnerPatchBodies ==
  LedgerPatchBodies
    \cup {[user |-> "u3"], [paidBy |-> "u3"], [amount |-> 4, paidBy |-> "u3"]}

\* C34: every stored expenditure has paidBy = user, a create stores the
\* caller as both whatever user or paidBy its body carries, and no create,
\* mark-paid, PATCH or DELETE changes the user or paidBy of an expenditure
\* it leaves in the store.
C34_OwnerIsPayerIsCreator ==
  LET kept(st) ==
        \A e \in Stored \cap DOMAIN st :
          st[e].user = store[e].user /\ st[e].paidBy = store[e].paidBy
  IN /\ \A id \in Stored : store[id].paidBy = store[id].user
     /\ nextId \in LedgerIds =>
          \A r \in SharedCreates :
            \A x \in {CreateResult(store, nextId, r.c, r.body)} :
              /\ kept(x.store)
              /\ x.resp.status = 201 =>
                   x.store[nextId].user = r.c /\ x.store[nextId].paidBy = r.c
     /\ \A c \in Users, id \in LedgerIds :
          /\ kept(MarkPaidResult(store, now, c, id, FindOneMarkPaid(store, c, id)).store)
          /\ kept(DeleteResult(store, c, id).store)
          /\ \A body \in OwnerPatchBodies :
               \A x \in {PatchResult(store, c, id, body)} :
                 /\ kept(x.store)
                 /\ DOMAIN x.store = Stored

\* C34 witness: a create has stored an expenditure of u2, whose body named
\* u3 as user and as paidBy, next to an expenditure of another owner.
C34_Witness ==
  /\ resp.op = "create" /\ resp.status = 201
  /\ \E id \in Stored : store[id].user = "u2" /\ store[id].paidBy = "u2"
  /\ \E id \in Stored : store[id].user # "u2"

\* The pairs of requests of which the second carries the filters of the
\* first and more.
FilterPairs ==
  {w \in SharedQueries \X SharedQueries :
     /\ DOMAIN Filters(w[1]) \subseteq DOMAIN Filters(w[2])
     /\ DOMAIN Filters(w[1]) # DOMAIN Filters(w[2])
     /\ \A k \in DOMAIN Filters(w[1]) : w[1][k] = w[2][k]}

\* C35: whatever the caller and the query, every expenditure GET
\* /expenditures returns has the caller as owner or split participant,
\* pagination.total and summary count and add up the matches of the query,
\* which are such expenditures and hold the ones returned, and a request
\* with more filters matches no expenditure the request with fewer does not.
C35_ListConfidentiality ==
  \A c \in Users :
    LET involved == {id \in Stored : store[id].user = c \/ IsParticipant(store[id], c)}
    IN /\ \A q \in SharedQueries :
            \A M \in {Find(store, c, q)} :
              /\ M \subseteq involved
              /\ \A body \in ListBodies(store, c, q) :
                   /\ \A i \in DOMAIN body.expenditures : body.expenditures[i] \in M
                   /\ body.pagination.total = Cardinality(M)
                   /\ body.summary.count = Cardinality(M)
                   /\ body.summary.totalAmount =
                        Sum([id \in M |-> store[id].totalAmount], M)
       /\ \A w \in FilterPairs :
            Find(store, c, w[2]) \subseteq Find(store, c, w[1])

\* C35 witness: a list without filters has been answered with fewer
\* expenditures than are stored, to a caller who owns none of them.
C35_Witness ==
  /\ resp.op = "list"
  /\ Cardinality(Stored) = 2
  /\ resp.body.pagination.total = 1
  /\ resp.body.summary.count = 1
  /\ Len(resp.body.expenditures) = 1
  /\ \E c \in Users :
       /\ \A id \in Stored : store[id].user # c
       /\ resp.body \in ListBodies(store, c, Empty)
       /\ IsParticipant(store[resp.body.expenditures[1]], c)

----------------------------------------------------------------------------
(* An update and a mark-paid of the same expenditure interleave (SpecConc). *)

\* c's update, its findOne answered, runs from save() to its response.
UpdateSaves(c) ==
  /\ reqs[c].phase = "found" /\ reqs[c].op = "update"
  /\ reqs'[c].phase = "done"

\* c's mark-paid, its findOne answered, runs from save() to its response.
MarkPaidSaves(c) ==
  /\ reqs[c].phase = "found" /\ reqs[c].op = "markPaid"
  /\ reqs'[c].phase = "done"

\* The copy of the expenditure c's request in flight has loaded.
Loaded(c) == CHOOSE d \in reqs[c].found : TRUE

\* o's PATCH and p's mark-paid on id have both been answered 200.
PatchedAndMarkedPaid(rq, st, o, p, id) ==
  /\ o # p
  /\ id \in DOMAIN st
  /\ rq[o] = Done("update", id, 200)
  /\ rq[p] = Done("markPaid", id, 200)

====
